---- MODULE Spec2Model ----
(***************************************************************************)
(* The "Slash" chat client: four snapshots of App.jsx.                     *)
(*                                                                         *)
(*   variant "src"       src/src/App.jsx          auto-send recorder with  *)
(*                                                pause/resume, auto-open  *)
(*   variant "part_001"  src/unnamed/part_001     auto-send recorder with  *)
(*                                                counter, no auto-open    *)
(*   variant "frontend"  src/frontend/src/App.jsx staging recorder         *)
(*   variant "part_000"  src/unnamed/part_000     staging recorder, block  *)
(*                                                status, avatar upload    *)
(*                                                                         *)
(* The client is single-threaded and event driven.  Every action below is  *)
(* one run of an event handler, or one continuation of an async function   *)
(* after an await.  A continuation reads the component state through the   *)
(* closure of the render in which its function was invoked; the value it   *)
(* captured is carried in the in-flight request (fields named clos...).    *)
(* Refs (xxxRef) are read at the time of use.                              *)
(***************************************************************************)
EXTENDS Integers, Sequences, FiniteSets, TLC

\* ------------------------------------------------------------------ bounds
MaxStarts == 2      \* startRecording invocations in one run
MaxElapsed == 1     \* cap of the elapsed-seconds counter
MaxSends == 2       \* /messages/send requests of the composer in one run
MaxTextLen == 1     \* longest text typed into an input
MaxInFlight == 1    \* requests of one kind that are outstanding together
MaxAuth == 2        \* login / register submissions in one run

\* ------------------------------------------------------- program constants
Variants == {"src", "part_001", "frontend", "part_000"}
AutoSend == {"src", "part_001"}          \* stop submits the clip at once
Staging == {"frontend", "part_000"}      \* stop stages the clip for preview

Users == {"alice", "bob", "carol"}
NoUser == "nouser"
NoPeer == "nopeer"
Kinds == {"text", "image", "video", "audio"}
Chars == {"a", " "}

MicDeniedAuto == "Microphone permission denied"
MicDeniedStaging == "Microphone permission denied. You can also upload an audio file instead."
NetworkError == "Network error. Cannot reach backend"

RECURSIVE SeqsUpTo(_, _)
SeqsUpTo(S, n) ==
  IF n = 0 THEN {<<>>}
  ELSE LET shorter == SeqsUpTo(S, n - 1)
       IN shorter \cup {Append(s, c) : s \in {t \in shorter : Len(t) = n - 1}, c \in S}

Texts == SeqsUpTo(Chars, MaxTextLen)

\* String.prototype.trim: drop the white space at both ends.
RECURSIVE TrimLeft(_)
TrimLeft(s) == IF s # <<>> /\ Head(s) = " " THEN TrimLeft(Tail(s)) ELSE s

RECURSIVE TrimRight(_)
TrimRight(s) ==
  IF s # <<>> /\ s[Len(s)] = " " THEN TrimRight(SubSeq(s, 1, Len(s) - 1)) ELSE s

trim(s) == TrimRight(TrimLeft(s))

\* JavaScript truthiness of a string: the empty string alone is falsy.
Truthy(s) == s # <<>>

StartIds == 1..MaxStarts

\* -------------------------------------------------------------------- state
VARIABLES
  variant,        \* which snapshot of App.jsx runs
  mounted,        \* the Chat component is mounted (me is set in App)
  last,           \* the handler that ran last (history, for stating claims)
  \* App and Auth
  me, storage, mode, loading, authError, authReqs, nAuth, loggedOut,
  \* Chat: React state
  query, results, publicUsers, peer, messages, text, type, file, error,
  statusMsg, blocked, blockedBy, convos, loadingConvos, sendingVoice,
  recording, paused, elapsed, permissionError, previewUrl,
  \* Chat: refs
  mediaRecorderRef, streamRef, timerRef, sendPendingRef,
  \* browser objects made by the recorder
  gum,            \* per startRecording call: the getUserMedia promise and the closure
  stream,         \* per call: the MediaStream's tracks
  mr,             \* per call: the MediaRecorder's state
  stopQueued,     \* recorders whose stop event is queued, not yet dispatched
  timers,         \* live setInterval timers of the elapsed counter
  urls,           \* object URLs created and not revoked
  nStarts,
  \* requests in flight
  sendReqs, voiceReqs, histReqs, convReqs, searchReqs, publicReqs,
  statusReqs, blockReqs, avatarReqs, nSends,
  \* the external API
  srvMsgs, srvBlock

appVars == <<me, storage, mode, loading, authError, authReqs, nAuth, loggedOut>>
listVars == <<query, results, publicUsers, convos, loadingConvos>>
threadVars == <<messages, text, statusMsg, blocked, blockedBy>>
recStateVars == <<recording, paused, elapsed, permissionError, previewUrl>>
refVars == <<mediaRecorderRef, streamRef, timerRef, sendPendingRef>>
browserVars == <<gum, stream, mr, stopQueued, timers, urls, nStarts>>
netVars == <<sendReqs, voiceReqs, histReqs, convReqs, searchReqs, publicReqs,
             statusReqs, blockReqs, avatarReqs, nSends>>
srvVars == <<srvMsgs, srvBlock>>

vars == <<variant, mounted, last, appVars, listVars, threadVars, peer, type, file,
          error, sendingVoice, recStateVars, refVars, browserVars, netVars, srvVars>>

\* A state setter of an unmounted component changes nothing.
SetState(old, new) == IF mounted THEN new ELSE old

Identity(u) == [username |-> u, avatar_url |-> 0]
NoIdentity == Identity(NoUser)
NoGum == [st |-> "none", closPreviewUrl |-> 0, closPeer |-> NoPeer]

NoMsg == [id |-> 0, peer |-> NoPeer, type |-> "text", text |-> <<>>]
Pending == [st |-> "pending", data |-> NoMsg, detail |-> ""]

\* ------------------------------------------------------------ construction
\* Component state as useState / useRef initialise it (src/src/App.jsx:128-146,
\* src/frontend/src/App.jsx:72-88, part_000:81-101, part_001:132-152).
ChatInitialState ==
  /\ query = <<>> /\ results = {} /\ publicUsers = {} /\ peer = NoPeer
  /\ messages = <<>> /\ text = <<>> /\ type = "text" /\ file = "none"
  /\ error = "" /\ statusMsg = "" /\ blocked = FALSE /\ blockedBy = NoUser
  /\ convos = <<>> /\ sendingVoice = FALSE
  /\ recording = FALSE /\ paused = FALSE /\ elapsed = 0
  /\ permissionError = "" /\ previewUrl = 0
  /\ mediaRecorderRef = 0 /\ streamRef = 0 /\ timerRef = 0 /\ sendPendingRef = FALSE

BrowserInitialState ==
  /\ gum = [i \in StartIds |-> NoGum]
  /\ stream = [i \in StartIds |-> "none"]
  /\ mr = [i \in StartIds |-> "none"]
  /\ stopQueued = {} /\ timers = {} /\ urls = {} /\ nStarts = 0

NoRequests ==
  /\ sendReqs = {} /\ voiceReqs = {} /\ histReqs = {} /\ searchReqs = {}
  /\ statusReqs = {} /\ blockReqs = {} /\ avatarReqs = {} /\ nSends = 0

\* The requests the mount effects of Chat issue: loadConvos() in the auto-send
\* variants (src/src/App.jsx:171-175, part_001:172-176), loadPublicUsers() in
\* part_000:103-106, none in src/frontend.
MountRequests(v) ==
  [conv |-> IF v \in AutoSend THEN {[closPeer |-> NoPeer]} ELSE {},
   public |-> IF v = "part_000" THEN {"users/public"} ELSE {}]

\* A page load without a saved session: App shows Auth.
InitFresh ==
  /\ variant \in Variants
  /\ storage = NoIdentity /\ me = NoIdentity /\ mounted = FALSE
  /\ mode = "login" /\ loading = FALSE /\ authError = "" /\ authReqs = {}
  /\ nAuth = 0 /\ loggedOut = FALSE
  /\ ChatInitialState /\ BrowserInitialState /\ NoRequests
  /\ convReqs = {} /\ publicReqs = {} /\ loadingConvos = FALSE
  /\ srvMsgs = <<>> /\ srvBlock = [u \in Users |-> NoUser]
  /\ last = "load"

\* A page load with a saved session: the mount effect reads slash_user and sets
\* me (src/frontend/src/App.jsx:279-282, part_000:390-393; in the auto-send
\* variants Auth's effect, src/src/App.jsx:60-63), Chat mounts and its mount
\* effects have run.
InitSaved ==
  /\ variant \in Variants
  /\ storage = Identity("alice") /\ me = Identity("alice") /\ mounted = TRUE
  /\ mode = "login" /\ loading = FALSE /\ authError = "" /\ authReqs = {}
  /\ nAuth = 0 /\ loggedOut = FALSE
  /\ ChatInitialState /\ BrowserInitialState /\ NoRequests
  /\ convReqs = MountRequests(variant).conv
  /\ publicReqs = MountRequests(variant).public
  /\ loadingConvos = (variant \in AutoSend)
  /\ srvMsgs = <<>> /\ srvBlock = [u \in Users |-> NoUser]
  /\ last = "load"

Init == InitFresh \/ InitSaved

\* ------------------------------------------------------------------ recorder
\* What the JSX renders, i.e. which handlers the user can invoke.
ComposerShown == mounted /\ peer # NoPeer

\* src/src/App.jsx:418-419, part_001:427-428 (Record shown when !recording,
\* disabled={!peer || sendingVoice}); src/frontend/src/App.jsx:252-255 and
\* part_000:363-366 (panel shown for type audio, disabled={blocked} in part_000).
RecordButtonEnabled ==
  /\ ComposerShown /\ ~recording
  /\ IF variant \in AutoSend THEN ~sendingVoice
     ELSE type = "audio" /\ ~(variant = "part_000" /\ blocked)

StopButtonShown ==
  ComposerShown /\ recording /\ (variant \in Staging => type = "audio")

\* clearTimer (part_001:255-260) applied to the set of live timers.
clearTimer(ts) == ts \ {timerRef}

\* startRecording up to its await: the message is cleared and getUserMedia is
\* requested (src/src/App.jsx:254-257, part_001:262-265,
\* src/frontend/src/App.jsx:120-123, part_000:151-154).  The continuation will
\* read previewUrl and peer from this render's closure.
StartRecordingCall ==
  /\ RecordButtonEnabled /\ nStarts < MaxStarts
  /\ nStarts' = nStarts + 1
  /\ gum' = [gum EXCEPT ![nStarts + 1] =
               [st |-> "pending", closPreviewUrl |-> previewUrl, closPeer |-> peer]]
  /\ IF variant \in AutoSend
       THEN error' = "" /\ UNCHANGED permissionError
       ELSE permissionError' = "" /\ UNCHANGED error
  /\ last' = "startRecording"
  /\ UNCHANGED <<variant, mounted, appVars, listVars, threadVars, peer, type, file,
                 sendingVoice, recording, paused, elapsed, previewUrl, refVars,
                 stream, mr, stopQueued, timers, urls, netVars, srvVars>>

\* getUserMedia resolved and the MediaRecorder was built and started: the rest of
\* the try block (src/src/App.jsx:257-270, part_001:265-286).
GumGrantedAuto(i) ==
  /\ variant \in AutoSend /\ gum[i].st = "pending"
  /\ gum' = [gum EXCEPT ![i].st = "granted"]
  /\ stream' = [stream EXCEPT ![i] = "live"]
  /\ mr' = [mr EXCEPT ![i] = "recording"]
  /\ mediaRecorderRef' = i
  /\ recording' = SetState(recording, TRUE)
  /\ IF variant = "src"
       THEN /\ paused' = SetState(paused, FALSE)
            /\ UNCHANGED <<elapsed, timerRef, timers, sendPendingRef>>
       ELSE /\ sendPendingRef' = FALSE
            /\ elapsed' = SetState(elapsed, 0)
            /\ timers' = clearTimer(timers) \cup {i}
            /\ timerRef' = i
            /\ UNCHANGED paused
  /\ last' = "gumGranted"
  /\ UNCHANGED <<variant, mounted, appVars, listVars, threadVars, peer, type, file,
                 error, sendingVoice, permissionError, previewUrl, streamRef,
                 stopQueued, urls, nStarts, netVars, srvVars>>

\* The same in the staging variants (src/frontend/src/App.jsx:123-143,
\* part_000:154-171): the stream and the timer are stored in refs, the timer of
\* an earlier start is not cleared.
GumGrantedStaging(i) ==
  /\ variant \in Staging /\ gum[i].st = "pending"
  /\ gum' = [gum EXCEPT ![i].st = "granted"]
  /\ stream' = [stream EXCEPT ![i] = "live"]
  /\ streamRef' = i
  /\ mr' = [mr EXCEPT ![i] = "recording"]
  /\ mediaRecorderRef' = i
  /\ recording' = SetState(recording, TRUE)
  /\ elapsed' = SetState(elapsed, 0)
  /\ timers' = timers \cup {i}
  /\ timerRef' = i
  /\ last' = "gumGranted"
  /\ UNCHANGED <<variant, mounted, appVars, listVars, threadVars, peer, type, file,
                 error, sendingVoice, paused, permissionError, previewUrl,
                 sendPendingRef, stopQueued, urls, nStarts, netVars, srvVars>>

\* A catch block that resets the recorder but displays nothing.
StartRecordingCatchSilent ==
  /\ recording' = IF variant \in AutoSend THEN SetState(recording, FALSE) ELSE recording
  /\ IF variant = "src" THEN paused' = SetState(paused, FALSE) ELSE UNCHANGED paused
  /\ IF variant = "part_001"
       THEN /\ elapsed' = SetState(elapsed, 0)
            /\ timers' = clearTimer(timers)
            /\ timerRef' = 0
       ELSE UNCHANGED <<elapsed, timers, timerRef>>
  /\ UNCHANGED <<error, permissionError>>

\* The catch block of startRecording (src/src/App.jsx:271-275, part_001:287-292,
\* src/frontend/src/App.jsx:144-146, part_000:172-174).
StartRecordingCatch ==
  /\ IF variant \in AutoSend
       THEN /\ error' = SetState(error, MicDeniedAuto)
            /\ recording' = SetState(recording, FALSE)
            /\ UNCHANGED permissionError
       ELSE /\ permissionError' = SetState(permissionError, MicDeniedStaging)
            /\ UNCHANGED <<error, recording>>
  /\ IF variant = "src" THEN paused' = SetState(paused, FALSE) ELSE UNCHANGED paused
  /\ IF variant = "part_001"
       THEN /\ elapsed' = SetState(elapsed, 0)
            /\ timers' = clearTimer(timers)
            /\ timerRef' = 0
       ELSE UNCHANGED <<elapsed, timers, timerRef>>

\* getUserMedia rejected: nothing of the try block ran, the catch block runs.
GumDenied(i) ==
  /\ gum[i].st = "pending"
  /\ gum' = [gum EXCEPT ![i].st = "denied"]
  /\ StartRecordingCatch
  /\ last' = "gumDenied"
  /\ UNCHANGED <<variant, mounted, appVars, listVars, threadVars, peer, type, file,
                 sendingVoice, previewUrl, mediaRecorderRef, streamRef,
                 sendPendingRef, stream, mr, stopQueued, urls, nStarts, netVars,
                 srvVars>>

\* getUserMedia resolved but new MediaRecorder(...) threw (an unsupported
\* mimeType, src/frontend/src/App.jsx:126): the stream is acquired, in the
\* staging variants already stored in streamRef, and the catch block runs.
MediaRecorderThrows(i) ==
  /\ gum[i].st = "pending"
  /\ gum' = [gum EXCEPT ![i].st = "failed"]
  /\ stream' = [stream EXCEPT ![i] = "live"]
  /\ streamRef' = IF variant \in Staging THEN i ELSE streamRef
  /\ StartRecordingCatch
  /\ last' = "mediaRecorderThrows"
  /\ UNCHANGED <<variant, mounted, appVars, listVars, threadVars, peer, type, file,
                 sendingVoice, previewUrl, mediaRecorderRef, sendPendingRef, mr,
                 stopQueued, urls, nStarts, netVars, srvVars>>

\* A pause that does not look at the state of the recorder.
pauseRecordingUnguarded ==
  /\ variant = "src" /\ mounted
  /\ mr' = IF mediaRecorderRef # 0 /\ mr[mediaRecorderRef] # "none"
             THEN [mr EXCEPT ![mediaRecorderRef] = "paused"] ELSE mr
  /\ paused' = TRUE
  /\ last' = "pauseRecording"
  /\ UNCHANGED <<variant, mounted, appVars, listVars, threadVars, peer, type, file,
                 error, sendingVoice, recording, elapsed, permissionError,
                 previewUrl, refVars, gum, stream, stopQueued, timers, urls,
                 nStarts, netVars, srvVars>>

\* pauseRecording / resumeRecording (src/src/App.jsx:278-292).  The buttons are
\* rendered while recording (src/src/App.jsx:423-429); the handlers are taken as
\* invocable in every recorder state of the mounted component, which is the
\* case their guards on mr.state exist for.
pauseRecording ==
  /\ variant = "src" /\ mounted
  /\ IF mediaRecorderRef # 0 /\ mr[mediaRecorderRef] = "recording"
       THEN /\ mr' = [mr EXCEPT ![mediaRecorderRef] = "paused"]
            /\ paused' = TRUE
       ELSE UNCHANGED <<mr, paused>>
  /\ last' = "pauseRecording"
  /\ UNCHANGED <<variant, mounted, appVars, listVars, threadVars, peer, type, file,
                 error, sendingVoice, recording, elapsed, permissionError,
                 previewUrl, refVars, gum, stream, stopQueued, timers, urls,
                 nStarts, netVars, srvVars>>

resumeRecording ==
  /\ variant = "src" /\ mounted
  /\ IF mediaRecorderRef # 0 /\ mr[mediaRecorderRef] = "paused"
       THEN /\ mr' = [mr EXCEPT ![mediaRecorderRef] = "recording"]
            /\ paused' = FALSE
       ELSE UNCHANGED <<mr, paused>>
  /\ last' = "resumeRecording"
  /\ UNCHANGED <<variant, mounted, appVars, listVars, threadVars, peer, type, file,
                 error, sendingVoice, recording, elapsed, permissionError,
                 previewUrl, refVars, gum, stream, stopQueued, timers, urls,
                 nStarts, netVars, srvVars>>

\* MediaRecorder.stop(): an active recorder becomes inactive and its stop event
\* is queued; on an inactive recorder stop() does nothing.
RecorderActive(i) == i # 0 /\ mr[i] \in {"recording", "paused"}

\* The history tag of a stop: whether it found the recorder capturing.
StopTag == IF RecorderActive(mediaRecorderRef) THEN "stopRecording" ELSE "stopRecordingIdle"

StopTracks(strm, i) == IF i # 0 THEN [strm EXCEPT ![i] = "stopped"] ELSE strm

\* stopRecording of src/src/App.jsx:294-301.
stopRecordingSrc ==
  /\ variant = "src" /\ StopButtonShown
  /\ IF RecorderActive(mediaRecorderRef)
       THEN /\ mr' = [mr EXCEPT ![mediaRecorderRef] = "inactive"]
            /\ stopQueued' = stopQueued \cup {mediaRecorderRef}
       ELSE UNCHANGED <<mr, stopQueued>>
  /\ recording' = FALSE
  /\ paused' = FALSE
  /\ last' = StopTag
  /\ UNCHANGED <<variant, mounted, appVars, listVars, threadVars, peer, type, file,
                 error, sendingVoice, elapsed, permissionError, previewUrl,
                 refVars, gum, stream, timers, urls, nStarts, netVars, srvVars>>

\* stopRecordingAndOptionallySend(true) of part_001:295-306, the only call the
\* JSX makes (part_001:432).
stopRecordingAndOptionallySend ==
  /\ variant = "part_001" /\ StopButtonShown
  /\ sendPendingRef' = TRUE
  /\ IF RecorderActive(mediaRecorderRef)
       THEN /\ mr' = [mr EXCEPT ![mediaRecorderRef] = "inactive"]
            /\ stopQueued' = stopQueued \cup {mediaRecorderRef}
            /\ UNCHANGED <<recording, elapsed, timers, timerRef>>
       ELSE /\ recording' = FALSE
            /\ elapsed' = 0
            /\ timers' = clearTimer(timers)
            /\ timerRef' = 0
            /\ UNCHANGED <<mr, stopQueued>>
  /\ last' = StopTag
  /\ UNCHANGED <<variant, mounted, appVars, listVars, threadVars, peer, type, file,
                 error, sendingVoice, paused, permissionError, previewUrl,
                 mediaRecorderRef, streamRef, gum, stream, urls, nStarts, netVars,
                 srvVars>>

\* stopRecording of src/frontend/src/App.jsx:149-159 and part_000:177-184; the
\* Stop button is rendered while recording, so the guard's `recording` is true.
stopRecordingStaging ==
  /\ variant \in Staging /\ StopButtonShown
  /\ IF mediaRecorderRef # 0 /\ recording
       THEN /\ IF RecorderActive(mediaRecorderRef)
                 THEN /\ mr' = [mr EXCEPT ![mediaRecorderRef] = "inactive"]
                      /\ stopQueued' = stopQueued \cup {mediaRecorderRef}
                 ELSE UNCHANGED <<mr, stopQueued>>
            /\ recording' = FALSE
            /\ timers' = clearTimer(timers)
            /\ timerRef' = 0
            /\ stream' = StopTracks(stream, streamRef)
            /\ streamRef' = 0
       ELSE UNCHANGED <<mr, stopQueued, recording, timers, timerRef, stream, streamRef>>
  /\ last' = StopTag
  /\ UNCHANGED <<variant, mounted, appVars, listVars, threadVars, peer, type, file,
                 error, sendingVoice, paused, elapsed, permissionError, previewUrl,
                 mediaRecorderRef, sendPendingRef, gum, urls, nStarts, netVars,
                 srvVars>>

\* A MediaRecorder whose stream has no live track left stops by itself and
\* queues its stop event (MediaStream Recording, "all tracks ended").  Browsers
\* differ in when they notice; the step may or may not be taken.
TracksEnded(i) ==
  /\ RecorderActive(i) /\ stream[i] = "stopped"
  /\ mr' = [mr EXCEPT ![i] = "inactive"]
  /\ stopQueued' = stopQueued \cup {i}
  /\ last' = "tracksEnded"
  /\ UNCHANGED <<variant, mounted, appVars, listVars, threadVars, peer, type, file,
                 error, sendingVoice, recStateVars, refVars, gum, stream, timers,
                 urls, nStarts, netVars, srvVars>>

\* loadConvos up to its await (src/src/App.jsx:148-152, part_001:154-158),
\* invoked from a function of the render whose peer was p.
LoadConvosCall(reqs, p) == reqs \cup {[closPeer |-> p]}

\* sendVoiceBlob up to its await (src/src/App.jsx:231-242, part_001:232-243),
\* for the recorder of start i; peer is read from the closure of that start.
VoiceRequest(i) == [rec |-> i, closPeer |-> gum[i].closPeer, resp |-> Pending]

\* mr.onstop of src/src/App.jsx:261-266 up to the await inside sendVoiceBlob.
onstopSrc(i) ==
  /\ variant = "src" /\ i \in stopQueued
  /\ stopQueued' = stopQueued \ {i}
  /\ stream' = StopTracks(stream, i)
  /\ IF gum[i].closPeer = NoPeer
       THEN UNCHANGED <<sendingVoice, error, voiceReqs>>
       ELSE /\ sendingVoice' = SetState(sendingVoice, TRUE)
            /\ error' = SetState(error, "")
            /\ voiceReqs' = voiceReqs \cup {VoiceRequest(i)}
  /\ last' = "onstop"
  /\ UNCHANGED <<variant, mounted, appVars, listVars, threadVars, peer, type, file,
                 recStateVars, refVars, gum, mr, timers, urls, nStarts, sendReqs,
                 histReqs, convReqs, searchReqs, publicReqs, statusReqs, blockReqs,
                 avatarReqs, nSends, srvVars>>

\* mr.onstop of part_001:270-280 up to the await inside sendVoiceBlob, or to its
\* end when nothing is sent.
onstopPart001(i) ==
  /\ variant = "part_001" /\ i \in stopQueued
  /\ stopQueued' = stopQueued \ {i}
  /\ stream' = StopTracks(stream, i)
  /\ timers' = clearTimer(timers)
  /\ timerRef' = 0
  /\ IF sendPendingRef /\ gum[i].closPeer # NoPeer
       THEN /\ sendingVoice' = SetState(sendingVoice, TRUE)
            /\ error' = SetState(error, "")
            /\ voiceReqs' = voiceReqs \cup {VoiceRequest(i)}
            /\ UNCHANGED <<recording, elapsed>>
       ELSE /\ recording' = SetState(recording, FALSE)
            /\ elapsed' = SetState(elapsed, 0)
            /\ UNCHANGED <<sendingVoice, error, voiceReqs>>
  /\ last' = "onstop"
  /\ UNCHANGED <<variant, mounted, appVars, listVars, threadVars, peer, type, file,
                 paused, permissionError, previewUrl, mediaRecorderRef, streamRef,
                 sendPendingRef, gum, mr, urls, nStarts, sendReqs, histReqs,
                 convReqs, searchReqs, publicReqs, statusReqs, blockReqs,
                 avatarReqs, nSends, srvVars>>

\* The cleanup of the effect on [previewUrl] (src/frontend/src/App.jsx:98-106,
\* part_000:115-122).  React runs it when previewUrl changes and when Chat
\* unmounts: the tracks of streamRef.current are stopped and the previewUrl of
\* the render that installed the effect is revoked.
PreviewCleanupStream(strm) == StopTracks(strm, streamRef)
PreviewCleanupUrls(us) == us \ {previewUrl}

\* mr.onstop of src/frontend/src/App.jsx:131-139 and part_000:160-167: the clip
\* is staged; `previewUrl` is the value of the render that called
\* startRecording.  The new object URL is numbered like its recorder.
onstopStaging(i) ==
  /\ variant \in Staging /\ i \in stopQueued
  /\ stopQueued' = stopQueued \ {i}
  /\ file' = SetState(file, "voice")
  /\ previewUrl' = SetState(previewUrl, i)
  /\ urls' = IF mounted
               THEN PreviewCleanupUrls((urls \cup {i}) \ {gum[i].closPreviewUrl})
               ELSE (urls \cup {i}) \ {gum[i].closPreviewUrl}
  /\ stream' = IF mounted THEN PreviewCleanupStream(stream) ELSE stream
  /\ last' = "onstop"
  /\ UNCHANGED <<variant, mounted, appVars, listVars, threadVars, peer, type, error,
                 sendingVoice, recording, paused, elapsed, permissionError,
                 refVars, gum, mr, timers, nStarts, netVars, srvVars>>

\* One firing of the elapsed counter's interval (part_001:286,
\* src/frontend/src/App.jsx:143, part_000:171).
Tick(i) ==
  /\ i \in timers
  /\ mounted => elapsed < MaxElapsed
  /\ elapsed' = SetState(elapsed, elapsed + 1)
  /\ last' = "tick"
  /\ UNCHANGED <<variant, mounted, appVars, listVars, threadVars, peer, type, file,
                 error, sendingVoice, recording, paused, permissionError,
                 previewUrl, refVars, browserVars, netVars, srvVars>>

\* clearVoice of src/frontend/src/App.jsx:161-166 and part_000:186-191, with the
\* effect cleanup that the change of previewUrl triggers.  The Clear button is
\* rendered while a file is attached (src/frontend/src/App.jsx:263-265).
ClearButtonShown == variant \in Staging /\ ComposerShown /\ type = "audio" /\ file # "none"

clearVoice ==
  /\ ClearButtonShown
  /\ file' = "none"
  /\ previewUrl' = 0
  /\ urls' = urls \ {previewUrl}
  /\ stream' = IF previewUrl # 0 THEN PreviewCleanupStream(stream) ELSE stream
  /\ elapsed' = 0
  /\ recording' = FALSE
  /\ last' = "clearVoice"
  /\ UNCHANGED <<variant, mounted, appVars, listVars, threadVars, peer, type, error,
                 sendingVoice, paused, permissionError, refVars, gum, mr,
                 stopQueued, timers, nStarts, netVars, srvVars>>

\* ------------------------------------------------------------- the composer
\* The kind selector (src/src/App.jsx:404, part_001:413; with the reset of the
\* attachment in src/frontend/src/App.jsx:238 and part_000:349, where it is
\* disabled while blocked).
setType(k) ==
  /\ ComposerShown /\ k # type
  /\ ~(variant = "part_000" /\ blocked)
  /\ type' = k
  /\ IF variant \in Staging
       THEN /\ file' = "none"
            /\ previewUrl' = 0
            /\ urls' = urls \ {previewUrl}
            /\ stream' = IF previewUrl # 0 THEN PreviewCleanupStream(stream) ELSE stream
       ELSE UNCHANGED <<file, previewUrl, urls, stream>>
  /\ last' = "setType"
  /\ UNCHANGED <<variant, mounted, appVars, listVars, threadVars, peer, error,
                 sendingVoice, recording, paused, elapsed, permissionError,
                 refVars, gum, mr, stopQueued, timers, nStarts, netVars, srvVars>>

\* The file input, rendered for the media kinds (src/src/App.jsx:413,
\* part_001:422, src/frontend/src/App.jsx:247, part_000:358).
setFile(f) ==
  /\ ComposerShown /\ type # "text" /\ f # file
  /\ ~(variant = "part_000" /\ blocked)
  /\ file' = f
  /\ last' = "setFile"
  /\ UNCHANGED <<variant, mounted, appVars, listVars, threadVars, peer, type, error,
                 sendingVoice, recStateVars, refVars, browserVars, netVars, srvVars>>

\* The text input (src/src/App.jsx:411, src/frontend/src/App.jsx:245).
setText(t) ==
  /\ ComposerShown /\ type = "text" /\ t # text
  /\ ~(variant = "part_000" /\ blocked)
  /\ text' = t
  /\ last' = "setText"
  /\ UNCHANGED <<variant, mounted, appVars, listVars, messages, statusMsg, blocked,
                 blockedBy, peer, type, file, error, sendingVoice, recStateVars,
                 refVars, browserVars, netVars, srvVars>>

\* --------------------------------------------------------------- the server
\* What an HTTP error response carries: a JSON body with a detail string, a JSON
\* body without one, or a body that is not JSON.
ErrorBodies == {"detail", "nodetail", "nojson"}
DetailText == "detail from the server"
JsonError == "Unexpected token < in JSON"

\* new Error((await res.json()).detail || fallback), caught and shown as
\* e.message (src/src/App.jsx:220,226-228; src/frontend/src/App.jsx:31,35-36).
\* An error handler that ignores the body of the response.
ThrownFallback(body, fallback) == fallback

ThrownMessage(body, fallback) ==
  CASE body = "detail" -> DetailText
    [] body = "nodetail" -> fallback
    [] OTHER -> JsonError

Outcomes == {"ok", "http", "net"}

\* The message the API creates for a request to peer p of kind k.
NewMessage(p, k, t) == [id |-> Len(srvMsgs) + 1, peer |-> p, type |-> k, text |-> t]

\* /messages/history between the logged-in user and p, as the API holds it.
History(p) == SelectSeq(srvMsgs, LAMBDA m : m.peer = p)

\* The API handles the POST of a voice note: it stores the message or refuses.
VoiceServe(r, o, body) ==
  /\ r \in voiceReqs /\ r.resp.st = "pending"
  /\ o # "http" => body = "detail"
  /\ LET m == NewMessage(r.closPeer, "audio", <<>>) IN
     /\ srvMsgs' = IF o = "ok" THEN Append(srvMsgs, m) ELSE srvMsgs
     /\ voiceReqs' = (voiceReqs \ {r}) \cup
          {[r EXCEPT !.resp = [st |-> o, data |-> IF o = "ok" THEN m ELSE NoMsg,
                               detail |-> IF o = "http" THEN body ELSE ""]]}
  /\ last' = "voiceServe"
  /\ UNCHANGED <<variant, mounted, appVars, listVars, threadVars, peer, type, file,
                 error, sendingVoice, recStateVars, refVars, browserVars, sendReqs,
                 histReqs, convReqs, searchReqs, publicReqs, statusReqs, blockReqs,
                 avatarReqs, nSends, srvBlock>>

\* sendVoiceBlob after its await (src/src/App.jsx:242-251, part_001:243-252) and,
\* in part_001, the rest of mr.onstop (part_001:278-279).
VoiceResponse(r) ==
  /\ r \in voiceReqs /\ r.resp.st # "pending"
  /\ voiceReqs' = voiceReqs \ {r}
  /\ IF r.resp.st = "ok"
       THEN /\ messages' = SetState(messages, Append(messages, r.resp.data))
            /\ convReqs' = LoadConvosCall(convReqs, r.closPeer)
            /\ loadingConvos' = SetState(loadingConvos, TRUE)
            /\ UNCHANGED error
       ELSE /\ error' = SetState(error,
                 IF r.resp.st = "net" THEN NetworkError
                 ELSE ThrownMessage(r.resp.detail, "Failed to send voice note"))
            /\ UNCHANGED <<messages, convReqs, loadingConvos>>
  /\ sendingVoice' = SetState(sendingVoice, FALSE)
  /\ IF variant = "part_001"
       THEN recording' = SetState(recording, FALSE) /\ elapsed' = SetState(elapsed, 0)
       ELSE UNCHANGED <<recording, elapsed>>
  /\ last' = "voiceResponse"
  /\ UNCHANGED <<variant, mounted, appVars, query, results, publicUsers, convos, text,
                 statusMsg, blocked, blockedBy, peer, type, file, paused,
                 permissionError, previewUrl, refVars, browserVars, sendReqs,
                 histReqs, searchReqs, publicReqs, statusReqs, blockReqs,
                 avatarReqs, nSends, srvVars>>

\* ------------------------------------------------------ lists and the peer
HistRequest(p) == [closPeer |-> p, st |-> "pending", list |-> <<>>, reload |-> 0]

\* The loadHistory a successful send awaits (src/frontend/src/App.jsx:190,
\* part_000:211); `reload` is the id of the message that send had stored.
ReloadRequest(p, id) == [HistRequest(p) EXCEPT !.reload = id]

\* The effect on [peer] when a peer gets selected: loadHistory() in
\* src/frontend/src/App.jsx:90-96, loadHistory() and checkBlock() in
\* part_000:108-113; the auto-send variants only restart their interval
\* (src/src/App.jsx:177-192).
PeerEffectHist(reqs, p) ==
  IF variant \in Staging /\ p # NoPeer THEN reqs \cup {HistRequest(p)} ELSE reqs

\* checkBlock up to its await (part_000:141-143); `after` is the status message
\* the caller sets once checkBlock has returned (part_000:240,249), empty when
\* the peer effect is the caller.
StatusRequest(p, after) == [closPeer |-> p, st |-> "pending", by |-> NoUser, after |-> after]

PeerEffectStatus(reqs, p) ==
  IF variant = "part_000" /\ p # NoPeer
    THEN reqs \cup {StatusRequest(p, "")}
    ELSE reqs

\* The users the JSX offers for selection: search results and conversations on
\* the home view of the auto-send variants (src/src/App.jsx:326-375), search
\* results (src/frontend/src/App.jsx:208-215) and public users
\* (part_000:279-302) in the side bar of the staging variants.
ConvPeers == {convos[n] : n \in 1..Len(convos)}

Offered ==
  IF variant \in AutoSend
    THEN IF peer = NoPeer THEN results \cup ConvPeers ELSE {}
    ELSE results \cup publicUsers

\* onClick={() => setPeer(u)} and the effects the new peer triggers.
selectPeer(u) ==
  /\ mounted /\ u \in Offered /\ u # peer
  /\ peer' = u
  /\ histReqs' = PeerEffectHist(histReqs, u)
  /\ statusReqs' = PeerEffectStatus(statusReqs, u)
  /\ last' = "selectPeer"
  /\ UNCHANGED <<variant, mounted, appVars, listVars, threadVars, type, file, error,
                 sendingVoice, recStateVars, refVars, browserVars, sendReqs,
                 voiceReqs, convReqs, searchReqs, publicReqs, blockReqs,
                 avatarReqs, nSends, srvVars>>

\* The Back button of the auto-send variants (src/src/App.jsx:384, part_001:393).
back ==
  /\ variant \in AutoSend /\ ComposerShown
  /\ peer' = NoPeer
  /\ last' = "back"
  /\ UNCHANGED <<variant, mounted, appVars, listVars, threadVars, type, file, error,
                 sendingVoice, recStateVars, refVars, browserVars, netVars, srvVars>>

\* One firing of the interval on loadConvos (src/src/App.jsx:173,
\* part_001:174): loadConvos of the mount render, whose peer is null.
convPollTick ==
  /\ variant \in AutoSend /\ mounted
  /\ Cardinality(convReqs) < MaxInFlight
  /\ convReqs' = LoadConvosCall(convReqs, NoPeer)
  /\ loadingConvos' = TRUE
  /\ last' = "convPollTick"
  /\ UNCHANGED <<variant, mounted, appVars, query, results, publicUsers, convos,
                 threadVars, peer, type, file, error, sendingVoice, recStateVars,
                 refVars, browserVars, sendReqs, voiceReqs, histReqs, searchReqs,
                 publicReqs, statusReqs, blockReqs, avatarReqs, nSends, srvVars>>

\* loadConvos after its await (src/src/App.jsx:153-168, part_001:159-169).  The
\* `peer` tested by the auto-open of src/src/App.jsx:158 is the closure's.
ConvResponse(r, o, list) ==
  /\ r \in convReqs
  /\ convReqs' = convReqs \ {r}
  /\ o # "ok" => list = <<>>
  /\ convos' = IF o = "ok" THEN SetState(convos, list) ELSE convos
  /\ peer' = IF o = "ok" /\ variant = "src" /\ r.closPeer = NoPeer /\ list # <<>>
               THEN SetState(peer, list[1]) ELSE peer
  /\ error' = IF o = "net" THEN SetState(error, NetworkError) ELSE error
  /\ loadingConvos' = SetState(loadingConvos, FALSE)
  /\ last' = "convResponse"
  /\ UNCHANGED <<variant, mounted, appVars, query, results, publicUsers, threadVars,
                 type, file, sendingVoice, recStateVars, refVars, browserVars,
                 sendReqs, voiceReqs, histReqs, searchReqs, publicReqs, statusReqs,
                 blockReqs, avatarReqs, nSends, srvVars>>

\* loadPublicUsers after its await (part_000:124-127); a transport failure is an
\* unhandled rejection and changes nothing.
PublicResponse(r, o, S) ==
  /\ r \in publicReqs
  /\ publicReqs' = publicReqs \ {r}
  /\ o # "ok" => S = {}
  /\ publicUsers' = IF o = "ok" THEN SetState(publicUsers, S) ELSE publicUsers
  /\ last' = "publicResponse"
  /\ UNCHANGED <<variant, mounted, appVars, query, results, convos, loadingConvos,
                 threadVars, peer, type, file, error, sendingVoice, recStateVars,
                 refVars, browserVars, sendReqs, voiceReqs, histReqs, convReqs,
                 searchReqs, statusReqs, blockReqs, avatarReqs, nSends, srvVars>>

\* -------------------------------------------------------------------- search
\* search(q) of src/src/App.jsx:194-198 and part_001:195-199, up to its await;
\* it is the onChange of the search input of the home view.
searchAuto(q) ==
  /\ variant \in AutoSend /\ mounted /\ peer = NoPeer /\ q # query
  /\ query' = q
  /\ IF ~Truthy(q)
       THEN results' = {} /\ UNCHANGED searchReqs
       ELSE searchReqs' = searchReqs \cup {[q |-> q]} /\ UNCHANGED results
  /\ last' = "search"
  /\ UNCHANGED <<variant, mounted, appVars, publicUsers, convos, loadingConvos,
                 threadVars, peer, type, file, error, sendingVoice, recStateVars,
                 refVars, browserVars, sendReqs, voiceReqs, histReqs, convReqs,
                 publicReqs, statusReqs, blockReqs, avatarReqs, nSends, srvVars>>

\* The search input of the staging variants only stores the query
\* (src/frontend/src/App.jsx:205, part_000:275).
setQuery(q) ==
  /\ variant \in Staging /\ mounted /\ q # query
  /\ query' = q
  /\ last' = "setQuery"
  /\ UNCHANGED <<variant, mounted, appVars, results, publicUsers, convos,
                 loadingConvos, threadVars, peer, type, file, error, sendingVoice,
                 recStateVars, refVars, browserVars, netVars, srvVars>>

\* search() of src/frontend/src/App.jsx:108-110 and part_000:129-131, up to its
\* await; it is the onClick of the Go button.
searchStaging ==
  /\ variant \in Staging /\ mounted
  /\ IF ~Truthy(trim(query))
       THEN UNCHANGED searchReqs
       ELSE searchReqs' = searchReqs \cup {[q |-> query]}
  /\ last' = "search"
  /\ UNCHANGED <<variant, mounted, appVars, listVars, threadVars, peer, type, file,
                 error, sendingVoice, recStateVars, refVars, browserVars, sendReqs,
                 voiceReqs, histReqs, convReqs, publicReqs, statusReqs, blockReqs,
                 avatarReqs, nSends, srvVars>>

\* What each variant stores of the users S the API answered with:
\* (data.results || []).filter(u => u.username !== me.username) in
\* src/src/App.jsx:201 and part_001:202, the answer as it is in
\* src/frontend/src/App.jsx:111 and part_000:132.
StoredResults(S) == IF variant \in AutoSend THEN S \ {"alice"} ELSE S

\* search after its await.  A transport failure is shown by the auto-send
\* variants (src/src/App.jsx:203-205) and is an unhandled rejection in the
\* staging variants.
SearchResponse(r, o, S) ==
  /\ r \in searchReqs
  /\ searchReqs' = searchReqs \ {r}
  /\ o # "ok" => S = {}
  /\ results' = IF o = "ok" THEN SetState(results, StoredResults(S)) ELSE results
  /\ error' = IF o = "net" /\ variant \in AutoSend
                THEN SetState(error, NetworkError) ELSE error
  /\ last' = "searchResponse"
  /\ UNCHANGED <<variant, mounted, appVars, query, publicUsers, convos,
                 loadingConvos, threadVars, peer, type, file, sendingVoice,
                 recStateVars, refVars, browserVars, sendReqs, voiceReqs, histReqs,
                 convReqs, publicReqs, statusReqs, blockReqs, avatarReqs, nSends,
                 srvVars>>

\* ------------------------------------------------------------------ history
\* loadHistory up to its await (src/frontend/src/App.jsx:114-116,
\* part_000:135-137) as the interval of src/frontend/src/App.jsx:93 and the
\* Refresh button of part_000:328 invoke it, and the interval callback of
\* src/src/App.jsx:178-182 and part_001:179-183.  All return when no peer is
\* selected.
loadHistoryCall ==
  /\ mounted /\ peer # NoPeer
  /\ Cardinality(histReqs) < MaxInFlight
  /\ histReqs' = histReqs \cup {HistRequest(peer)}
  /\ last' = "loadHistory"
  /\ UNCHANGED <<variant, mounted, appVars, listVars, threadVars, peer, type, file,
                 error, sendingVoice, recStateVars, refVars, browserVars, sendReqs,
                 voiceReqs, convReqs, searchReqs, publicReqs, statusReqs, blockReqs,
                 avatarReqs, nSends, srvVars>>

\* The API answers /messages/history with what it holds at that moment.
HistServe(r, o) ==
  /\ r \in histReqs /\ r.st = "pending"
  /\ histReqs' = (histReqs \ {r}) \cup
       {[r EXCEPT !.st = o, !.list = IF o = "ok" THEN History(r.closPeer) ELSE <<>>]}
  /\ last' = "histServe"
  /\ UNCHANGED <<variant, mounted, appVars, listVars, threadVars, peer, type, file,
                 error, sendingVoice, recStateVars, refVars, browserVars, sendReqs,
                 voiceReqs, convReqs, searchReqs, publicReqs, statusReqs, blockReqs,
                 avatarReqs, nSends, srvVars>>

\* A history continuation that drops a response shorter than the held list.
HistResponseKeepLonger(r) ==
  /\ r \in histReqs /\ r.st # "pending"
  /\ histReqs' = histReqs \ {r}
  /\ messages' = IF r.st = "ok" /\ Len(r.list) >= Len(messages)
                   THEN SetState(messages, r.list) ELSE messages
  /\ error' = IF r.st = "net" /\ variant \in AutoSend
                THEN SetState(error, NetworkError) ELSE error
  /\ last' = "histResponse"
  /\ UNCHANGED <<variant, mounted, appVars, listVars, text, statusMsg, blocked,
                 blockedBy, peer, type, file, sendingVoice, recStateVars, refVars,
                 browserVars, sendReqs, voiceReqs, convReqs, searchReqs, publicReqs,
                 statusReqs, blockReqs, avatarReqs, nSends, srvVars>>

\* After the await: the held list is replaced (src/src/App.jsx:183-189,
\* part_001:184-190, src/frontend/src/App.jsx:117, part_000:138).  Only the
\* auto-send variants catch a transport failure.
HistResponse(r) ==
  /\ r \in histReqs /\ r.st # "pending"
  /\ histReqs' = histReqs \ {r}
  /\ messages' = IF r.st = "ok" THEN SetState(messages, r.list) ELSE messages
  /\ error' = IF r.st = "net" /\ variant \in AutoSend
                THEN SetState(error, NetworkError) ELSE error
  /\ last' = "histResponse"
  /\ UNCHANGED <<variant, mounted, appVars, listVars, text, statusMsg, blocked,
                 blockedBy, peer, type, file, sendingVoice, recStateVars, refVars,
                 browserVars, sendReqs, voiceReqs, convReqs, searchReqs, publicReqs,
                 statusReqs, blockReqs, avatarReqs, nSends, srvVars>>

\* --------------------------------------------------------------------- send
\* The multipart body send builds from the render's state; n tells apart the
\* requests of two invocations that carry the same body.
SendRequest(hasText, hasFile) ==
  [n |-> nSends + 1, sender |-> me.username, receiver |-> peer, type |-> type,
   hasText |-> hasText, text |-> IF hasText THEN text ELSE <<>>,
   hasFile |-> hasFile, closPreviewUrl |-> previewUrl, resp |-> Pending]

\* No send has been invoked that issued a request.
FirstSend == nSends = 0

\* send of src/src/App.jsx:208-219 and part_001:209-220 up to its await: the
\* text is appended for kind text, the file whenever one is attached.
sendAuto ==
  /\ variant \in AutoSend /\ ComposerShown
  /\ nSends < MaxSends
  /\ error' = ""
  /\ IF peer = NoPeer
       THEN UNCHANGED <<sendReqs, nSends>>
       ELSE /\ sendReqs' = sendReqs \cup {SendRequest(type = "text", file # "none")}
            /\ nSends' = nSends + 1
  /\ last' = "send"
  /\ UNCHANGED <<variant, mounted, appVars, listVars, threadVars, peer, type, file,
                 sendingVoice, recStateVars, refVars, browserVars, voiceReqs,
                 histReqs, convReqs, searchReqs, publicReqs, statusReqs, blockReqs,
                 avatarReqs, srvVars>>

\* The early returns of send without the test of `blocked`.
RejectsLocallyNoBlock ==
  \/ peer = NoPeer
  \/ type = "text" /\ ~Truthy(trim(text))
  \/ type # "text" /\ file = "none"

\* The early returns of send in the staging variants
\* (src/frontend/src/App.jsx:169,175,179-182; part_000:194,200,204-206).
RejectsLocally ==
  \/ peer = NoPeer
  \/ variant = "part_000" /\ blocked
  \/ type = "text" /\ ~Truthy(trim(text))
  \/ type # "text" /\ file = "none"

\* send of src/frontend/src/App.jsx:168-186 and part_000:193-207 up to its await.
\* The function is taken as invocable whenever the composer is rendered; the
\* JSX of part_000 also disables the button while blocked.
sendStaging ==
  /\ variant \in Staging /\ ComposerShown
  /\ nSends < MaxSends
  /\ IF RejectsLocally
       THEN UNCHANGED <<sendReqs, nSends>>
       ELSE /\ sendReqs' = sendReqs \cup {SendRequest(type = "text", type # "text")}
            /\ nSends' = nSends + 1
  /\ last' = "send"
  /\ UNCHANGED <<variant, mounted, appVars, listVars, threadVars, peer, type, file,
                 error, sendingVoice, recStateVars, refVars, browserVars, voiceReqs,
                 histReqs, convReqs, searchReqs, publicReqs, statusReqs, blockReqs,
                 avatarReqs, srvVars>>

\* The API handles /messages/send: it stores the message or refuses.
SendServe(r, o, body) ==
  /\ r \in sendReqs /\ r.resp.st = "pending"
  /\ o # "http" => body = "detail"
  /\ LET m == NewMessage(r.receiver, r.type, r.text) IN
     /\ srvMsgs' = IF o = "ok" THEN Append(srvMsgs, m) ELSE srvMsgs
     /\ sendReqs' = (sendReqs \ {r}) \cup
          {[r EXCEPT !.resp = [st |-> o, data |-> IF o = "ok" THEN m ELSE NoMsg,
                               detail |-> IF o = "http" THEN body ELSE ""]]}
  /\ last' = "sendServe"
  /\ UNCHANGED <<variant, mounted, appVars, listVars, threadVars, peer, type, file,
                 error, sendingVoice, recStateVars, refVars, browserVars, voiceReqs,
                 histReqs, convReqs, searchReqs, publicReqs, statusReqs, blockReqs,
                 avatarReqs, nSends, srvBlock>>

\* send after its await in src/src/App.jsx:220-228 and part_001:221-229.
SendResponseAuto(r) ==
  /\ variant \in AutoSend /\ r \in sendReqs /\ r.resp.st # "pending"
  /\ sendReqs' = sendReqs \ {r}
  /\ IF r.resp.st = "ok"
       THEN /\ text' = SetState(text, <<>>)
            /\ file' = SetState(file, "none")
            /\ messages' = SetState(messages, Append(messages, r.resp.data))
            /\ convReqs' = LoadConvosCall(convReqs, r.receiver)
            /\ loadingConvos' = SetState(loadingConvos, TRUE)
            /\ UNCHANGED error
       ELSE /\ error' = SetState(error,
                 IF r.resp.st = "net" THEN NetworkError
                 ELSE ThrownMessage(r.resp.detail, "Failed to send"))
            /\ UNCHANGED <<text, file, messages, convReqs, loadingConvos>>
  /\ last' = "sendResponse"
  /\ UNCHANGED <<variant, mounted, appVars, query, results, publicUsers, convos,
                 statusMsg, blocked, blockedBy, peer, type, sendingVoice,
                 recStateVars, refVars, browserVars, voiceReqs, histReqs,
                 searchReqs, publicReqs, statusReqs, blockReqs, avatarReqs, nSends,
                 srvVars>>

\* res.json().catch(() => ({detail: 'Send failed'})) followed by
\* er.detail || 'Send failed' (part_000:213-214).
StatusMessage(body) == IF body = "detail" THEN DetailText ELSE "Send failed"

\* send after its await in src/frontend/src/App.jsx:187-191 and
\* part_000:208-215: the composer is reset and loadHistory of the same render is
\* called; part_000 shows the detail of a refusal.  A transport failure is an
\* unhandled rejection.
SendResponseStaging(r) ==
  /\ variant \in Staging /\ r \in sendReqs /\ r.resp.st # "pending"
  /\ sendReqs' = sendReqs \ {r}
  /\ IF r.resp.st = "ok"
       THEN /\ text' = SetState(text, <<>>)
            /\ file' = SetState(file, "none")
            /\ previewUrl' = IF r.closPreviewUrl # 0 THEN SetState(previewUrl, 0)
                             ELSE previewUrl
            /\ urls' = IF r.closPreviewUrl # 0 /\ mounted
                         THEN PreviewCleanupUrls(urls \ {r.closPreviewUrl})
                         ELSE urls \ {r.closPreviewUrl}
            /\ stream' = IF r.closPreviewUrl # 0 /\ mounted /\ previewUrl # 0
                           THEN PreviewCleanupStream(stream) ELSE stream
            /\ histReqs' = histReqs \cup {ReloadRequest(r.receiver, r.resp.data.id)}
            /\ UNCHANGED statusMsg
       ELSE /\ statusMsg' = IF r.resp.st = "http" /\ variant = "part_000"
                              THEN SetState(statusMsg, StatusMessage(r.resp.detail))
                              ELSE statusMsg
            /\ UNCHANGED <<text, file, previewUrl, urls, stream, histReqs>>
  /\ last' = "sendResponse"
  /\ UNCHANGED <<variant, mounted, appVars, listVars, messages, blocked, blockedBy,
                 peer, type, error, sendingVoice, recording, paused, elapsed,
                 permissionError, refVars, gum, mr, stopQueued, timers, nStarts,
                 voiceReqs, convReqs, searchReqs, publicReqs, statusReqs,
                 blockReqs, avatarReqs, nSends, srvVars>>

\* -------------------------------------------------------------------- block
\* part_000:323-327: Block is offered while the held status is not blocked,
\* Unblock while it is.
BlockButton == IF blocked THEN "unblock" ELSE "block"

\* doBlock / doUnblock up to the await of the POST (part_000:234-239, 243-248).
doBlock ==
  /\ variant = "part_000" /\ ComposerShown
  /\ Cardinality(blockReqs) + Cardinality({s \in statusReqs : s.after # ""}) < MaxInFlight
  /\ blockReqs' = blockReqs \cup {[op |-> BlockButton, closPeer |-> peer, st |-> "pending"]}
  /\ last' = "doBlock"
  /\ UNCHANGED <<variant, mounted, appVars, listVars, threadVars, peer, type, file,
                 error, sendingVoice, recStateVars, refVars, browserVars, sendReqs,
                 voiceReqs, histReqs, convReqs, searchReqs, publicReqs, statusReqs,
                 avatarReqs, nSends, srvVars>>

\* The API handles /block and /unblock of alice against the peer.
BlockServe(r, o) ==
  /\ r \in blockReqs /\ r.st = "pending"
  /\ blockReqs' = (blockReqs \ {r}) \cup {[r EXCEPT !.st = o]}
  /\ srvBlock' = IF o = "ok"
                   THEN [srvBlock EXCEPT ![r.closPeer] =
                           IF r.op = "block" THEN "alice" ELSE NoUser]
                   ELSE srvBlock
  /\ last' = "blockServe"
  /\ UNCHANGED <<variant, mounted, appVars, listVars, threadVars, peer, type, file,
                 error, sendingVoice, recStateVars, refVars, browserVars, sendReqs,
                 voiceReqs, histReqs, convReqs, searchReqs, publicReqs, statusReqs,
                 avatarReqs, nSends, srvMsgs>>

\* doBlock / doUnblock after the POST (part_000:240, 249): on ok checkBlock of
\* the same render is called.
BlockResponse(r) ==
  /\ r \in blockReqs /\ r.st # "pending"
  /\ blockReqs' = blockReqs \ {r}
  /\ statusReqs' = IF r.st = "ok"
                     THEN statusReqs \cup
                            {StatusRequest(r.closPeer,
                               IF r.op = "block" THEN "User blocked" ELSE "User unblocked")}
                     ELSE statusReqs
  /\ last' = "blockResponse"
  /\ UNCHANGED <<variant, mounted, appVars, listVars, threadVars, peer, type, file,
                 error, sendingVoice, recStateVars, refVars, browserVars, sendReqs,
                 voiceReqs, histReqs, convReqs, searchReqs, publicReqs, avatarReqs,
                 nSends, srvVars>>

\* The API answers /block/status with who imposed the block, if any.
StatusServe(r, o) ==
  /\ r \in statusReqs /\ r.st = "pending"
  /\ statusReqs' = (statusReqs \ {r}) \cup
       {[r EXCEPT !.st = o, !.by = IF o = "ok" THEN srvBlock[r.closPeer] ELSE NoUser]}
  /\ last' = "statusServe"
  /\ UNCHANGED <<variant, mounted, appVars, listVars, threadVars, peer, type, file,
                 error, sendingVoice, recStateVars, refVars, browserVars, sendReqs,
                 voiceReqs, histReqs, convReqs, searchReqs, publicReqs, blockReqs,
                 avatarReqs, nSends, srvVars>>

\* checkBlock after its await (part_000:144-148) and the setStatusMsg of the
\* caller (part_000:240, 249); a transport failure rejects checkBlock and with
\* it the caller.
StatusResponse(r) ==
  /\ r \in statusReqs /\ r.st # "pending"
  /\ statusReqs' = statusReqs \ {r}
  /\ blocked' = IF r.st = "ok" THEN SetState(blocked, r.by # NoUser) ELSE blocked
  /\ blockedBy' = IF r.st = "ok" THEN SetState(blockedBy, r.by) ELSE blockedBy
  /\ statusMsg' = IF r.st # "net" /\ r.after # ""
                    THEN SetState(statusMsg, r.after) ELSE statusMsg
  /\ last' = "statusResponse"
  /\ UNCHANGED <<variant, mounted, appVars, listVars, messages, text, peer, type,
                 file, error, sendingVoice, recStateVars, refVars, browserVars,
                 sendReqs, voiceReqs, histReqs, convReqs, searchReqs, publicReqs,
                 blockReqs, avatarReqs, nSends, srvVars>>

\* ------------------------------------------------------------------- logout
\* The Log out button: localStorage.removeItem and setMe(null)
\* (src/src/App.jsx:321 with 453, part_001:332 with 461,
\* src/frontend/src/App.jsx:202 with 284, part_000:269 with 395).  Chat
\* unmounts: React runs the cleanups of its effects, which clear the polling
\* intervals and, in the staging variants, run the cleanup of the effect on
\* [previewUrl].  Auth mounts in its initial state.
logout ==
  /\ mounted
  /\ mounted' = FALSE
  /\ me' = NoIdentity
  /\ storage' = NoIdentity
  /\ loggedOut' = TRUE
  /\ mode' = "login" /\ loading' = FALSE /\ authError' = ""
  /\ stream' = IF variant \in Staging THEN PreviewCleanupStream(stream) ELSE stream
  /\ urls' = IF variant \in Staging THEN PreviewCleanupUrls(urls) ELSE urls
  /\ last' = "logout"
  /\ UNCHANGED <<variant, authReqs, nAuth, listVars, threadVars, peer, type, file,
                 error, sendingVoice, recStateVars, refVars, gum, mr, stopQueued,
                 timers, nStarts, netVars, srvVars>>

\* ------------------------------------------------------------------ session
\* Chat mounts for identity u: fresh component state and refs, and the mount
\* effects run.  Continuations of an earlier Chat instance only call setters of
\* that unmounted instance, so its outstanding list, thread and send requests
\* are dropped here; an avatar upload continues (it writes storage).
MountChat(u) ==
  /\ me' = u /\ mounted' = TRUE
  /\ query' = <<>> /\ results' = {} /\ publicUsers' = {} /\ peer' = NoPeer
  /\ messages' = <<>> /\ text' = <<>> /\ type' = "text" /\ file' = "none"
  /\ error' = "" /\ statusMsg' = "" /\ blocked' = FALSE /\ blockedBy' = NoUser
  /\ convos' = <<>> /\ sendingVoice' = FALSE
  /\ recording' = FALSE /\ paused' = FALSE /\ elapsed' = 0
  /\ permissionError' = "" /\ previewUrl' = 0
  /\ mediaRecorderRef' = 0 /\ streamRef' = 0 /\ timerRef' = 0
  /\ sendPendingRef' = FALSE
  /\ sendReqs' = {} /\ voiceReqs' = {} /\ histReqs' = {} /\ searchReqs' = {}
  /\ statusReqs' = {} /\ blockReqs' = {}
  /\ convReqs' = MountRequests(variant).conv
  /\ publicReqs' = MountRequests(variant).public
  /\ loadingConvos' = (variant \in AutoSend)

\* The mode buttons of Auth (src/src/App.jsx:117-121, part_000:57-58).
setMode(m) ==
  /\ ~mounted /\ m # mode
  /\ mode' = m
  /\ last' = "setMode"
  /\ UNCHANGED <<variant, mounted, me, storage, loading, authError, authReqs, nAuth,
                 loggedOut, listVars, threadVars, peer, type, file, error,
                 sendingVoice, recStateVars, refVars, browserVars, netVars, srvVars>>

\* A submit that issues the request without raising the loading flag.
submitNoLoading ==
  /\ ~mounted /\ ~loading
  /\ nAuth < MaxAuth
  /\ authError' = ""
  /\ authReqs' = authReqs \cup {[mode |-> mode, st |-> "pending", body |-> "detail"]}
  /\ nAuth' = nAuth + 1
  /\ last' = "submit"
  /\ UNCHANGED <<variant, mounted, me, storage, mode, loading, loggedOut, listVars,
                 threadVars, peer, type, file, error, sendingVoice, recStateVars,
                 refVars, browserVars, netVars, srvVars>>

\* Auth.submit up to its await (src/src/App.jsx:65-71, part_001:69-75,
\* src/frontend/src/App.jsx:11-16, part_000:19-25); the submit button is
\* disabled while loading.
submit ==
  /\ ~mounted /\ ~loading
  /\ nAuth < MaxAuth
  /\ loading' = TRUE
  /\ authError' = ""
  /\ authReqs' = authReqs \cup {[mode |-> mode, st |-> "pending", body |-> "detail"]}
  /\ nAuth' = nAuth + 1
  /\ last' = "submit"
  /\ UNCHANGED <<variant, mounted, me, storage, mode, loggedOut, listVars,
                 threadVars, peer, type, file, error, sendingVoice, recStateVars,
                 refVars, browserVars, netVars, srvVars>>

\* The API answers /login or /register.
AuthServe(r, o, body) ==
  /\ r \in authReqs /\ r.st = "pending"
  /\ o # "http" => body = "detail"
  /\ authReqs' = (authReqs \ {r}) \cup {[r EXCEPT !.st = o, !.body = body]}
  /\ last' = "authServe"
  /\ UNCHANGED <<variant, mounted, me, storage, mode, loading, authError, nAuth,
                 loggedOut, listVars, threadVars, peer, type, file, error,
                 sendingVoice, recStateVars, refVars, browserVars, netVars, srvVars>>

\* (await res.json()).detail || 'Failed to register' / 'Failed to login'
\* (src/src/App.jsx:76,86), || 'Failed' (src/frontend/src/App.jsx:22,31).
AuthFallback(m) ==
  IF variant \in AutoSend
    THEN (IF m = "register" THEN "Failed to register" ELSE "Failed to login")
    ELSE "Failed"

\* The message of the TypeError a rejected fetch carries.
FetchFailed == "Failed to fetch"

\* What the catch block of submit displays for a response that is not ok; only
\* apiFetch of the auto-send variants rewrites a transport failure.
AuthFailure(r) ==
  IF r.st = "net"
    THEN (IF variant \in AutoSend THEN NetworkError ELSE FetchFailed)
    ELSE ThrownMessage(r.body, AuthFallback(r.mode))

\* Auth.submit after its await (src/src/App.jsx:76-94, part_001:80-98,
\* src/frontend/src/App.jsx:22-39, part_000:31-48) with App.onAuth
\* (src/frontend/src/App.jsx:283, part_000:394): on ok the identity is stored
\* under slash_user and set, and Chat replaces Auth.
AuthResponse(r) ==
  /\ ~mounted /\ r \in authReqs /\ r.st # "pending"
  /\ authReqs' = authReqs \ {r}
  /\ IF r.st = "ok"
       THEN /\ storage' = Identity("alice")
            /\ MountChat(Identity("alice"))
            /\ mode' = "login" /\ loading' = FALSE /\ authError' = ""
            /\ loggedOut' = FALSE
       ELSE /\ authError' = AuthFailure(r)
            /\ loading' = FALSE
            /\ UNCHANGED <<me, storage, mounted, mode, loggedOut, listVars,
                           threadVars, peer, type, file, error, sendingVoice,
                           recStateVars, refVars, sendReqs, voiceReqs, histReqs,
                           convReqs, searchReqs, publicReqs, statusReqs, blockReqs>>
  /\ last' = "authResponse"
  /\ UNCHANGED <<variant, nAuth, browserVars, avatarReqs, nSends, srvVars>>

\* onUploadAvatar up to its await (part_000:218-224), for a file the user
\* picked; `me` is the prop of the render.
onUploadAvatar ==
  /\ variant = "part_000" /\ mounted
  /\ Cardinality(avatarReqs) < MaxInFlight
  /\ avatarReqs' = avatarReqs \cup {[closMe |-> me, st |-> "pending"]}
  /\ last' = "onUploadAvatar"
  /\ UNCHANGED <<variant, mounted, appVars, listVars, threadVars, peer, type, file,
                 error, sendingVoice, recStateVars, refVars, browserVars, sendReqs,
                 voiceReqs, histReqs, convReqs, searchReqs, publicReqs, statusReqs,
                 blockReqs, nSends, srvVars>>

\* The API answers /users/avatar.
AvatarServe(r, o) ==
  /\ r \in avatarReqs /\ r.st = "pending"
  /\ avatarReqs' = (avatarReqs \ {r}) \cup {[r EXCEPT !.st = o]}
  /\ last' = "avatarServe"
  /\ UNCHANGED <<variant, mounted, appVars, listVars, threadVars, peer, type, file,
                 error, sendingVoice, recStateVars, refVars, browserVars, sendReqs,
                 voiceReqs, histReqs, convReqs, searchReqs, publicReqs, statusReqs,
                 blockReqs, nSends, srvVars>>

\* onUploadAvatar after its await (part_000:225-231).  On ok the identity of the
\* closure, with the new avatar, is written under slash_user and the page is
\* reloaded: every outstanding continuation is gone, App starts over
\* (part_000:388-393), finds the saved identity and mounts Chat.
AvatarResponse(r) ==
  /\ r \in avatarReqs /\ r.st # "pending"
  /\ IF r.st = "ok"
       THEN /\ storage' = [r.closMe EXCEPT !.avatar_url = 1]
            /\ MountChat(storage')
            /\ avatarReqs' = {} /\ authReqs' = {}
            /\ mode' = "login" /\ loading' = FALSE /\ authError' = ""
       ELSE /\ avatarReqs' = avatarReqs \ {r}
            /\ UNCHANGED <<me, storage, mounted, mode, loading, authError, authReqs,
                           listVars, threadVars, peer, type, file, error,
                           sendingVoice, recStateVars, refVars, sendReqs, voiceReqs,
                           histReqs, convReqs, searchReqs, publicReqs, statusReqs,
                           blockReqs>>
  /\ last' = "avatarResponse"
  /\ UNCHANGED <<variant, nAuth, loggedOut, browserVars, nSends, srvVars>>

\* -------------------------------------------------- the session on its own
\* Page loads with or without a saved session; the user logs in or registers,
\* uploads avatars and logs out.  The recorder is not used.
NextSession ==
  \/ \E m \in {"login", "register"} : setMode(m)
  \/ submit
  \/ \E r \in authReqs, o \in Outcomes, body \in ErrorBodies : AuthServe(r, o, body)
  \/ \E r \in authReqs : AuthResponse(r)
  \/ \E r \in convReqs : ConvResponse(r, "ok", <<"bob">>)
  \/ \E r \in publicReqs : PublicResponse(r, "ok", {"bob"})
  \/ onUploadAvatar
  \/ \E r \in avatarReqs, o \in Outcomes : AvatarServe(r, o)
  \/ \E r \in avatarReqs : AvatarResponse(r)
  \/ logout

SpecSession == Init /\ [][NextSession]_vars

\* ---------------------------------------------------- the search on its own
\* The user types queries and searches; the API answers with any set of users,
\* alice herself included, and lists no conversation or the one with bob.
NextSearch ==
  \/ \E q \in Texts : searchAuto(q)
  \/ \E q \in Texts : setQuery(q)
  \/ searchStaging
  \/ \E r \in searchReqs, o \in Outcomes, S \in SUBSET Users : SearchResponse(r, o, S)
  \/ \E r \in convReqs, l \in {<<>>, <<"bob">>} : ConvResponse(r, "ok", l)
  \/ \E r \in publicReqs : PublicResponse(r, "ok", {"bob"})
  \/ \E u \in Users : selectPeer(u)
  \/ back
  \/ convPollTick

SpecSearch == InitSaved /\ [][NextSearch]_vars

\* ------------------------------------------------- the recorder on its own
\* The user opens a chat with bob (whom the API lists), attaches files, records,
\* and may log out; the polling intervals do not fire in this window.
NextRecorder ==
  \/ \E r \in convReqs : ConvResponse(r, "ok", <<"bob">>)
  \/ \E r \in publicReqs : PublicResponse(r, "ok", {"bob"})
  \/ setQuery(<<"a">>)
  \/ searchStaging
  \/ \E r \in searchReqs : SearchResponse(r, "ok", {"bob"})
  \/ selectPeer("bob")
  \/ \E k \in {"audio", "text"} : setType(k)
  \/ \E f \in {"upload", "none"} : setFile(f)
  \/ StartRecordingCall
  \/ \E i \in StartIds : GumGrantedAuto(i)
  \/ \E i \in StartIds : GumGrantedStaging(i)
  \/ \E i \in StartIds : GumDenied(i)
  \/ \E i \in StartIds : MediaRecorderThrows(i)
  \/ pauseRecording
  \/ resumeRecording
  \/ stopRecordingSrc
  \/ stopRecordingAndOptionallySend
  \/ stopRecordingStaging
  \/ \E i \in StartIds : TracksEnded(i)
  \/ \E i \in StartIds : onstopSrc(i)
  \/ \E i \in StartIds : onstopPart001(i)
  \/ \E i \in StartIds : onstopStaging(i)
  \/ \E i \in StartIds : Tick(i)
  \/ clearVoice
  \/ \E r \in voiceReqs, o \in Outcomes : VoiceServe(r, o, "detail")
  \/ \E r \in voiceReqs : VoiceResponse(r)
  \/ logout

SpecRecorder == InitSaved /\ [][NextRecorder]_vars

\* ------------------------------------------- starting and stopping on its own
\* The user opens a chat with bob, starts, pauses and stops recordings, and may
\* log out; no file is picked, the counter interval does not fire and the API
\* does not answer the voice notes within this window.
NextStart ==
  \/ \E r \in convReqs : ConvResponse(r, "ok", <<"bob">>)
  \/ \E r \in publicReqs : PublicResponse(r, "ok", {"bob"})
  \/ setQuery(<<"a">>)
  \/ searchStaging
  \/ \E r \in searchReqs : SearchResponse(r, "ok", {"bob"})
  \/ selectPeer("bob")
  \/ \E k \in {"audio", "text"} : setType(k)
  \/ StartRecordingCall
  \/ \E i \in StartIds : GumGrantedAuto(i)
  \/ \E i \in StartIds : GumGrantedStaging(i)
  \/ \E i \in StartIds : GumDenied(i)
  \/ \E i \in StartIds : MediaRecorderThrows(i)
  \/ pauseRecording
  \/ resumeRecording
  \/ stopRecordingSrc
  \/ stopRecordingAndOptionallySend
  \/ stopRecordingStaging
  \/ \E i \in StartIds : TracksEnded(i)
  \/ \E i \in StartIds : onstopSrc(i)
  \/ \E i \in StartIds : onstopPart001(i)
  \/ \E i \in StartIds : onstopStaging(i)
  \/ logout

SpecStart == InitSaved /\ [][NextStart]_vars

\* --------------------------------------------------- the thread on its own
\* The user opens a chat with bob and sends text messages while history is
\* polled or refreshed; the recorder and the block controls are not used.
NextThread ==
  \/ \E r \in convReqs : ConvResponse(r, "ok", <<"bob">>)
  \/ \E r \in publicReqs : PublicResponse(r, "ok", {"bob"})
  \/ setQuery(<<"a">>)
  \/ searchStaging
  \/ \E r \in searchReqs : SearchResponse(r, "ok", {"bob"})
  \/ selectPeer("bob")
  \/ \E t \in Texts : setText(t)
  \/ sendAuto
  \/ sendStaging
  \/ \E r \in sendReqs, o \in Outcomes, body \in ErrorBodies : SendServe(r, o, body)
  \/ \E r \in sendReqs : SendResponseAuto(r)
  \/ \E r \in sendReqs : SendResponseStaging(r)
  \/ loadHistoryCall
  \/ \E r \in histReqs, o \in Outcomes : HistServe(r, o)
  \/ \E r \in histReqs : HistResponse(r)

SpecThread == InitSaved /\ [][NextThread]_vars

\* ------------------------------------------- the history loads on their own
\* The user opens a chat with bob and sends the text "a" once while history is
\* loaded and polled; the API is reachable and answers every request with success, in
\* any order.
NextHistory ==
  \/ \E r \in convReqs : ConvResponse(r, "ok", <<"bob">>)
  \/ \E r \in publicReqs : PublicResponse(r, "ok", {"bob"})
  \/ setQuery(<<"a">>)
  \/ searchStaging
  \/ \E r \in searchReqs : SearchResponse(r, "ok", {"bob"})
  \/ selectPeer("bob")
  \/ setText(<<"a">>)
  \/ FirstSend /\ sendAuto
  \/ FirstSend /\ sendStaging
  \/ \E r \in sendReqs : SendServe(r, "ok", "detail")
  \/ \E r \in sendReqs : SendResponseAuto(r)
  \/ \E r \in sendReqs : SendResponseStaging(r)
  \/ loadHistoryCall
  \/ \E r \in histReqs : HistServe(r, "ok")
  \/ \E r \in histReqs : HistResponse(r)

SpecHistory == InitSaved /\ [][NextHistory]_vars

\* ---------------------------------------------------- changing the peer
\* The API lists bob and carol; the user opens one chat, sends the text "a" once,
\* goes back or switches to the other chat while history is loaded and polled.
\* Every request is answered with success, in any order.
BothPeers == {"bob", "carol"}

NextPeers ==
  \/ \E r \in convReqs : ConvResponse(r, "ok", <<"bob", "carol">>)
  \/ \E r \in publicReqs : PublicResponse(r, "ok", BothPeers)
  \/ setQuery(<<"a">>)
  \/ searchStaging
  \/ \E r \in searchReqs : SearchResponse(r, "ok", BothPeers)
  \/ \E u \in BothPeers : selectPeer(u)
  \/ back
  \/ setText(<<"a">>)
  \/ FirstSend /\ sendAuto
  \/ FirstSend /\ sendStaging
  \/ \E r \in sendReqs : SendServe(r, "ok", "detail")
  \/ \E r \in sendReqs : SendResponseAuto(r)
  \/ \E r \in sendReqs : SendResponseStaging(r)
  \/ loadHistoryCall
  \/ \E r \in histReqs : HistServe(r, "ok")
  \/ \E r \in histReqs : HistResponse(r)

SpecPeers == InitSaved /\ [][NextPeers]_vars

\* -------------------------------------------------- the composer on its own
\* The user opens a chat with bob, changes the kind, types, picks and removes
\* files, and invokes send; the API does not answer within this window.
NextCompose ==
  \/ \E r \in convReqs : ConvResponse(r, "ok", <<"bob">>)
  \/ \E r \in publicReqs : PublicResponse(r, "ok", {"bob"})
  \/ setQuery(<<"a">>)
  \/ searchStaging
  \/ \E r \in searchReqs : SearchResponse(r, "ok", {"bob"})
  \/ selectPeer("bob")
  \/ \E t \in Texts : setText(t)
  \/ \E k \in Kinds : setType(k)
  \/ \E f \in {"upload", "none"} : setFile(f)
  \/ sendAuto
  \/ sendStaging

SpecCompose == InitSaved /\ [][NextCompose]_vars

\* ------------------------------------------- the block controls on their own
\* In the block-aware variant the user opens a chat with bob, drafts messages of
\* any kind (the text field empty or holding "a"), blocks and unblocks, and
\* invokes send until one request has gone out; the API does not answer the
\* sends and the history requests within this window.
InitBlock == InitSaved /\ variant = "part_000"

NextBlock ==
  \/ \E r \in publicReqs : PublicResponse(r, "ok", {"bob"})
  \/ selectPeer("bob")
  \/ \E t \in {<<>>, <<"a">>} : setText(t)
  \/ \E k \in {"image", "text"} : setType(k)
  \/ \E f \in {"upload", "none"} : setFile(f)
  \/ FirstSend /\ sendStaging
  \/ doBlock
  \/ \E r \in blockReqs : BlockServe(r, "ok")
  \/ \E r \in blockReqs : BlockResponse(r)
  \/ \E r \in statusReqs, o \in {"ok", "http"} : StatusServe(r, o)
  \/ \E r \in statusReqs : StatusResponse(r)

SpecBlock == InitBlock /\ [][NextBlock]_vars

\* ------------------------------------------------ voice notes on their own
\* In the auto-send variants the API lists bob and carol; the user opens a chat,
\* records, goes back or switches chats, and stops; the API answers the voice
\* notes and the conversation refreshes, which are also polled.
InitVoice == InitSaved /\ variant \in AutoSend

NextVoice ==
  \/ \E r \in convReqs : ConvResponse(r, "ok", <<"bob", "carol">>)
  \/ convPollTick
  \/ \E u \in BothPeers : selectPeer(u)
  \/ back
  \/ StartRecordingCall
  \/ \E i \in StartIds : GumGrantedAuto(i)
  \/ stopRecordingSrc
  \/ stopRecordingAndOptionallySend
  \/ \E i \in StartIds : onstopSrc(i)
  \/ \E i \in StartIds : onstopPart001(i)
  \/ \E r \in voiceReqs, o \in Outcomes : VoiceServe(r, o, "detail")
  \/ \E r \in voiceReqs : VoiceResponse(r)

SpecVoice == InitVoice /\ [][NextVoice]_vars

\* --------------------------------------- the block status across two peers
\* In the block-aware variant the API lists bob and carol; the user switches
\* between the two chats, blocks and unblocks, and the API answers every request
\* with success, in any order.
NextBlockPeers ==
  \/ \E r \in publicReqs : PublicResponse(r, "ok", BothPeers)
  \/ \E u \in BothPeers : selectPeer(u)
  \/ doBlock
  \/ \E r \in blockReqs : BlockServe(r, "ok")
  \/ \E r \in blockReqs : BlockResponse(r)
  \/ \E r \in statusReqs : StatusServe(r, "ok")
  \/ \E r \in statusReqs : StatusResponse(r)

SpecBlockPeers == InitBlock /\ [][NextBlockPeers]_vars

\* ----------------------------------------------------- claims on the thread
\* How often message m occurs in the list ms.
Count(ms, m) == Cardinality({n \in 1..Len(ms) : ms[n] = m})

\* Every variable but the history variable `last`.
stateVars == <<variant, mounted, appVars, listVars, threadVars, peer, type, file,
               error, sendingVoice, recStateVars, refVars, browserVars, netVars,
               srvVars>>

\* C1: once a /messages/send call has succeeded and the client has handled it
\* (the response handler of the appending variants; the history reload that the
\* handler awaits in the reloading variants), the held list contains the
\* returned message exactly once, and the response handler leaves the text field
\* empty, whatever history responses were handled in between.
C1_SentMessageHeldOnce ==
  [][/\ \A r \in sendReqs :
          (mounted /\ r.resp.st = "ok" /\ r \notin sendReqs')
            => /\ text' = <<>>
               /\ variant \in AutoSend => Count(messages', r.resp.data) = 1
     /\ \A h \in histReqs :
          (mounted /\ h.st = "ok" /\ h.reload # 0 /\ h \notin histReqs')
            => \E n \in 1..Len(messages') :
                 /\ messages'[n].id = h.reload
                 /\ \A k \in 1..Len(messages') : messages'[k].id = h.reload => k = n]_vars

\* C3: a send of kind text whose body is empty or only whitespace issues no
\* request and leaves the held list as it was, in every variant.
C3_EmptyTextNotSent ==
  [][(last' = "send" /\ type = "text" /\ ~Truthy(trim(text)))
       => sendReqs' = sendReqs /\ messages' = messages]_vars

\* C4: in the block-aware variant, while the held block status is blocked, send
\* issues no request and changes no state, whatever the kind and the draft.
C4_BlockedSendDoesNothing ==
  [][(variant = "part_000" /\ blocked /\ last' = "send") => UNCHANGED stateVars]_vars

\* C4 witness: send was invoked while blocked, on a draft that would otherwise
\* have been sent.
C4_Witness ==
  /\ variant = "part_000" /\ blocked /\ last = "send"
  /\ peer = "bob" /\ type = "text" /\ Truthy(trim(text))

\* C11: a send of a media kind with no file and no recording attached issues no
\* request and leaves all state unchanged, in every variant.
C11_MediaWithoutFileNotSent ==
  [][(last' = "send" /\ type # "text" /\ file = "none") => UNCHANGED stateVars]_vars

\* C12: every /messages/send request carries the logged-in handle as sender, the
\* selected peer as receiver, the selected kind, and exactly one payload: the
\* text and no file for kind text, a file and no text for the media kinds.
C12_RequestCarriesOnePayload ==
  [][\A r \in sendReqs' \ sendReqs :
       /\ r.sender = me.username /\ r.receiver = peer /\ r.type = type
       /\ IF r.type = "text" THEN r.hasText /\ ~r.hasFile
                             ELSE r.hasFile /\ ~r.hasText]_vars

\* C13: a transport failure of an API call is surfaced as the normalized
\* network-unreachable message that names the backend base, never as the raw
\* transport error and never as an unhandled rejection; stated for the send and
\* history calls handled while Chat is mounted.
C13_TransportFailureNormalized ==
  [][/\ \A r \in sendReqs :
          (mounted /\ last' = "sendResponse" /\ r.resp.st = "net" /\ r \notin sendReqs')
            => error' = NetworkError
     /\ \A h \in histReqs :
          (mounted /\ last' = "histResponse" /\ h.st = "net" /\ h \notin histReqs')
            => error' = NetworkError]_vars

\* The message an HTTP error response with the given body should produce: its
\* detail when it has one, otherwise the fixed generic message.
DetailOrGeneric(body, generic) == IF body = "detail" THEN DetailText ELSE generic

\* C14: for every HTTP error response to a send the message shown is the detail
\* of the response when it has one and otherwise a fixed generic message, also
\* when the body has no detail or cannot be parsed; no failed send is dropped
\* without a message.  (src/frontend has no place where a send failure shows.)
C14_HttpErrorShowsDetailOrGeneric ==
  [][\A r \in sendReqs :
       (mounted /\ last' = "sendResponse" /\ r.resp.st = "http" /\ r \notin sendReqs')
         => CASE variant \in AutoSend
                   -> error' = DetailOrGeneric(r.resp.detail, "Failed to send")
              [] variant = "part_000"
                   -> statusMsg' = DetailOrGeneric(r.resp.detail, "Send failed")
              [] OTHER -> FALSE]_vars

\* C16: at the moment a peer is selected a /messages/history request for that
\* peer is issued (and again at every later poll tick while the peer stays
\* selected).
C16_SelectionLoadsHistory ==
  [][last' = "selectPeer"
       => \E h \in histReqs' : h.closPeer = peer' /\ h.st = "pending"]_vars

C24_ThreadShowsSelectedPeer ==
  (mounted /\ peer # NoPeer) => \A n \in 1..Len(messages) : messages[n].peer = peer

\* The request send would issue for the draft the composer holds now.
DraftRequest ==
  IF variant \in AutoSend THEN SendRequest(type = "text", file # "none")
  ELSE SendRequest(type = "text", type # "text")

\* C28: a draft is submitted at most once: while a /messages/send request that
\* carries the current (non-empty) draft is outstanding, invoking send again
\* issues no request.
C28_DraftSentOnce ==
  [][(/\ last' = "send" /\ ~RejectsLocallyNoBlock
      /\ \E r \in sendReqs : /\ r.resp.st = "pending"
                             /\ [r EXCEPT !.n = 0] = [DraftRequest EXCEPT !.n = 0])
       => sendReqs' = sendReqs]_vars

\* C19: in the block-aware variant, once a block of the selected peer has
\* succeeded and the status refresh has made the held status blocked, the
\* composer stays disabled for as long as that peer stays selected and no unblock
\* has succeeded (the API still holds alice's block).
C19_BlockedUntilUnblock ==
  [][(/\ variant = "part_000" /\ mounted /\ mounted'
      /\ peer # NoPeer /\ peer' = peer
      /\ blocked /\ srvBlock[peer] = "alice" /\ srvBlock'[peer] = "alice")
       => blocked']_vars

\* C26: in the block-aware variant the held block status describes the selected
\* peer: right after a peer is selected the composer is gated only if the API
\* holds a block for that peer, and a status response for a peer that is no
\* longer selected leaves the held status as it is.
C26_StatusDescribesSelectedPeer ==
  [][/\ (mounted /\ last' = "selectPeer" /\ blocked') => srvBlock[peer'] # NoUser
     /\ \A r \in statusReqs :
          (mounted /\ last' = "statusResponse" /\ r \notin statusReqs'
             /\ r.closPeer # peer)
            => UNCHANGED <<blocked, blockedBy>>]_vars

\* C20: an inline error raised by a kind of action is gone once the next attempt
\* of that kind has succeeded.  For the history poll of the auto-send variants:
\* while no send has been invoked (so the displayed error can only come from a
\* poll), handling a successful history response leaves no error displayed.
C20_SuccessDismissesError ==
  [][\A h \in histReqs :
       (/\ variant \in AutoSend /\ mounted /\ nSends = 0
        /\ last' = "histResponse" /\ h \notin histReqs' /\ h.st = "ok")
         => error' = ""]_vars

\* --------------------------------------------------- claims on the recorder
NoLiveTrack == \A i \in StartIds : stream[i] # "live"
NoRecorderCapturing == \A i \in StartIds : ~RecorderActive(i)

\* The stop the user invoked on a capturing recorder has run to its end: in the
\* staging variants stopRecording itself releases the stream, in the auto-send
\* variants the queued stop event does.
StopSettled ==
  \/ variant \in Staging /\ last = "stopRecording"
  \/ variant \in AutoSend /\ last = "onstop" /\ stopQueued = {}

\* C2: after stop is invoked on an active recording, no audio track of any
\* microphone stream the recorder acquired remains live, in every variant.
C2_StopReleasesEveryStream == StopSettled => NoLiveTrack

\* The recorder as the user and the browser see it at rest.
RecorderIdle == ~recording /\ timers = {} /\ NoRecorderCapturing

PermissionMessageShown ==
  IF variant \in AutoSend THEN error = MicDeniedAuto
  ELSE permissionError = MicDeniedStaging

\* C6: when getUserMedia rejects a start and the rejection finds the recorder
\* idle, the recorder stays idle (recording flag false, no counter timer), the
\* permission-denied message is displayed, the attachment is left as it was and
\* no request is issued.
C6_DeniedStartStaysIdle ==
  [][\A i \in StartIds :
       (gum[i].st = "pending" /\ gum'[i].st = "denied" /\ mounted /\ RecorderIdle)
         => /\ RecorderIdle'
            /\ PermissionMessageShown'
            /\ file' = file
            /\ UNCHANGED netVars]_vars

\* C6 witness: the only start of the run was denied and the message is shown.
C6_Witness ==
  /\ last = "gumDenied" /\ mounted /\ nStarts = 1
  /\ RecorderIdle /\ PermissionMessageShown

\* C27: whenever a start that found the recorder idle and no stream acquired
\* ends in the failure branch, by a rejected permission request or by a
\* MediaRecorder that could not be built after access was granted, no microphone
\* stream remains acquired and the recorder is idle.
C27_FailedStartHoldsNothing ==
  [][\A i \in StartIds :
       (/\ gum[i].st = "pending" /\ gum'[i].st \in {"denied", "failed"}
        /\ mounted /\ RecorderIdle /\ NoLiveTrack)
         => RecorderIdle' /\ NoLiveTrack']_vars

\* The state of the MediaRecorder that mediaRecorderRef holds.
RefRecorderState == IF mediaRecorderRef = 0 THEN "none" ELSE mr[mediaRecorderRef]

\* C18: pause changes the recorder only when it is recording and resume only
\* when it is paused; invoked in any other recorder state each leaves every
\* recorder and the recording / paused flags as they were.
C18_PauseResumeOnlyInPhase ==
  [][/\ (last' = "pauseRecording" /\ RefRecorderState # "recording")
          => UNCHANGED <<mr, recording, paused>>
     /\ (last' = "resumeRecording" /\ RefRecorderState # "paused")
          => UNCHANGED <<mr, recording, paused>>
     /\ (last' = "pauseRecording" /\ RefRecorderState = "recording")
          => RefRecorderState' = "paused" /\ paused'
     /\ (last' = "resumeRecording" /\ RefRecorderState = "paused")
          => RefRecorderState' = "recording" /\ ~paused']_vars

\* C18 witness: pause was invoked on a recorder that had already been stopped
\* and changed nothing.
C18_Witness ==
  /\ last = "pauseRecording" /\ ~recording /\ ~paused
  /\ RefRecorderState = "inactive"

\* C9: after clear, in any recorder state, the recorder is idle: nothing staged,
\* no preview URL unrevoked, recording flag false, counter 0 and not running, no
\* MediaRecorder capturing, no microphone track live.
C9_ClearReturnsToIdle ==
  last = "clearVoice" =>
    /\ file = "none" /\ previewUrl = 0 /\ urls = {}
    /\ RecorderIdle /\ elapsed = 0 /\ NoLiveTrack

\* C25: at any time at most one microphone stream is acquired and at most one
\* MediaRecorder is capturing, also when start is invoked again before an
\* earlier permission request has resolved.
C25_OneStreamOneRecorder ==
  /\ Cardinality({i \in StartIds : stream[i] = "live"}) <= 1
  /\ Cardinality({i \in StartIds : RecorderActive(i)}) <= 1

\* C29: in the auto-send variants a recording that is stopped yields exactly one
\* /messages/send request of kind audio, addressed to the peer that is selected
\* when stop is invoked (stated for a stop event that is dispatched right after
\* the stop, so the selected peer is still the one of the stop).
C29_VoiceNoteGoesToSelectedPeer ==
  [][(mounted /\ last = "stopRecording" /\ last' = "onstop")
       => /\ Cardinality(voiceReqs' \ voiceReqs) = 1
          /\ \A r \in voiceReqs' \ voiceReqs : r.closPeer = peer]_vars

\* C30: the busy indicators track the work in flight: loadingConvos is true
\* exactly while a /conversations request is outstanding, sendingVoice exactly
\* while a voice-note send is.
C30_BusyFlagsTrackRequests ==
  (mounted /\ variant \in AutoSend)
    => /\ loadingConvos <=> convReqs # {}
       /\ sendingVoice <=> voiceReqs # {}

\* C21: once Chat is unmounted no timer the view created fires again: neither
\* the history poll, nor the conversation poll, nor the elapsed counter of the
\* recorder.
C21_NoTimerAfterTeardown ==
  [][~mounted => last' \notin {"tick", "loadHistory", "convPollTick"}]_vars

\* C10: once Chat is torn down, every stream the recorder acquired is released
\* and every preview URL it created is revoked, also those a pending callback
\* acquires or creates after the teardown.
C10_TeardownReleasesAll == ~mounted => NoLiveTrack /\ urls = {}

\* ----------------------------------------------------- claims on the search
\* C5: in every variant the held search results never contain the logged-in
\* user's own handle, whatever the API answers.
C5_ResultsExcludeSelf == mounted => me.username \notin results

\* C23: a conversation refresh changes the selected peer only when none is
\* selected as its response is applied, and a refresh applied right after the
\* user went back to the list leaves the list shown.
C23_RefreshKeepsSelection ==
  [][/\ (mounted /\ last' = "convResponse" /\ peer # NoPeer) => peer' = peer
     /\ (mounted /\ last' = "convResponse" /\ last = "back") => peer' = NoPeer]_vars

\* C17: after search was invoked with an empty query the held results are empty
\* and stay empty until search is invoked with a non-empty query, whatever
\* responses to earlier searches are handled in between.  In the auto-send
\* variants `query` is the argument of the last search; in the staging variants
\* search reads the query the input holds.
C17_EmptyQueryKeepsResultsEmpty ==
  /\ (variant \in AutoSend /\ mounted /\ query = <<>>) => results = {}
  /\ (variant \in Staging /\ mounted /\ last = "search" /\ query = <<>>) => results = {}

\* ---------------------------------------------------- claims on the session
\* C7: when /login or /register answers with an HTTP error status and a detail
\* message, Auth displays that detail, the identity of the root shell stays
\* unset (the form remains shown) and nothing is written under slash_user.
C7_AuthErrorShowsDetail ==
  [][\A r \in authReqs :
       (last' = "authResponse" /\ r.st = "http" /\ r.body = "detail" /\ r \notin authReqs')
         => /\ authError' = DetailText
            /\ me' = NoIdentity /\ ~mounted'
            /\ storage' = storage]_vars

\* C7 witness: a refused login has been handled and its detail is displayed.
C7_Witness ==
  /\ last = "authResponse" /\ authError = DetailText
  /\ me = NoIdentity /\ ~mounted /\ storage = NoIdentity

\* C8: from a logout until the next successful login or register the saved
\* session stays absent and the root shell shows Auth, whatever responses to
\* requests issued before the logout are handled in between.
C8_LoggedOutStaysLoggedOut ==
  loggedOut => storage = NoIdentity /\ me = NoIdentity /\ ~mounted

\* C15: while a login or register call is outstanding the loading flag is true
\* (the submit control is disabled, so there is one call at most); once the call
\* completes, by success, HTTP error or transport failure, the flag is false
\* again, and on failure a message is displayed and the identity stays unset.
C15_LoadingBracketsTheCall ==
  [][/\ authReqs' # {} => loading' /\ Cardinality(authReqs') = 1
     /\ \A r \in authReqs :
          (last' = "authResponse" /\ r \notin authReqs')
            => /\ ~loading'
               /\ r.st # "ok" => authError' # "" /\ me' = NoIdentity /\ ~mounted']_vars

\* C15 witness: a second attempt failed at transport level and has been handled.
C15_Witness ==
  /\ last = "authResponse" /\ nAuth = 2 /\ ~loading /\ authReqs = {}
  /\ authError \in {NetworkError, FetchFailed} /\ me = NoIdentity

====
